---- MODULE Spec2Model ----
(***************************************************************************)
(* A model of piboufilings: the token-bucket rate limiter and its          *)
(* process-wide singleton (core/rate_limiter.py), the downloader's request *)
(* sequence (core/downloader.py) and the persistence of parsed filings     *)
(* (parsers/form_13f_parser.py, core/data_organizer.py).                   *)
(*                                                                         *)
(* Time is read on a grid of whole ticks (one tick = one second); rates    *)
(* are tokens per tick and token amounts are whole tokens, so that         *)
(* elapsed * rate and deficit / rate are computed exactly.                 *)
(***************************************************************************)
EXTENDS Integers, Sequences, FiniteSets, TLC

\* ---------------------------------------------------------------- bounds
MaxTime == 2          \* the clock stops advancing at this tick
MaxCost == 2          \* largest number of tokens one acquire asks for
MaxTimeout == 2       \* largest timeout (ticks) an acquire is given
MaxConstructions == 2 \* GlobalRateLimiter(...) calls in one behaviour
MaxRows == 1          \* most data lines in one quarter's form.idx
MaxIngest == 3        \* process_filing calls in one behaviour
MaxTokens == 5        \* most lines in the text given to extract_xml
MaxLines == 3         \* most lines in the header given to parse_company_info
MaxEntries == 2       \* most entries in the table given to parse_holdings
MaxDigits == 2        \* most digits in one part of an accession number
MaxTypeLen == 4       \* most characters in a form type
MaxIdxLines == 3      \* most lines in a form.idx
MaxRun == 2           \* most digits in the cik and in a part of an accession number given to _download_single_filing

\* Python's None for an optional argument; Some(x) is a given value
None == <<>>
Some(x) == <<x>>
Val(o) == o[1]

\* limiter before any TokenBucketRateLimiter exists (a real bucket has rate > 0)
NoBucket == [rate |-> 0, capacity |-> 0, tokens |-> 0, last_refill_time |-> 0]
\* GlobalRateLimiter._instance = None (object ids start at 1)
NoObject == 0
\* limiter.lock held by nobody (threads are numbered from 1)
Unlocked == 0

Threads == {1, 2}
Rates == {1, 2}                 \* rate arguments of a directly built bucket
Capacities == {None, Some(2)}         \* capacity arguments (None: defaults to rate)
NominalRates == {10, 20}        \* rate arguments of GlobalRateLimiter
SafetyTenths == {1, 2}          \* safety_factor arguments, in tenths

Costs == 1..MaxCost
Timeouts == {None} \cup {Some(x) : x \in 0..MaxTimeout}
Times == 0..MaxTime

Min(a, b) == IF a <= b THEN a ELSE b

\* ceil(n / d) for n >= 0, d > 0
CeilDiv(n, d) == (n + d - 1) \div d

VARIABLES
    now,            \* time.time(), in ticks
    limiter,        \* the TokenBucketRateLimiter in use (NoBucket before it exists)
    lock,           \* owner of limiter.lock (Unlocked when free)
    instance,       \* GlobalRateLimiter._instance: NoObject or the object's id
    initialized,    \* GlobalRateLimiter._instance._initialized
    pc,             \* per thread: where it is inside acquire
    call,           \* per thread: the arguments of its acquire
    start_time,     \* per thread: start_time of its acquire
    sleep_until,    \* per thread: first tick at which time.sleep has returned
    \* history variables
    refilled,       \* per thread: limiter.tokens right after its last _refill
    slept,          \* per thread: whether its acquire has called time.sleep
    window_start,   \* the instant t1 from which granted tokens are counted
    window_granted, \* tokens deducted by the acquires whose _refill read a time >= t1
    objects,        \* number of GlobalRateLimiter objects ever allocated
    returned,       \* ids of the objects the constructions returned
    first_args,     \* arguments of the first construction to build a bucket
    gpc,            \* per thread: its place in GlobalRateLimiter(...)
    gargs,          \* per thread: the arguments of its construction
    constructions   \* number of GlobalRateLimiter(...) calls so far

bucketVars == <<now, limiter, lock, pc, call, start_time, sleep_until,
                refilled, slept, window_start, window_granted>>
globalVars == <<instance, initialized, objects, returned, first_args, gpc, gargs,
               constructions>>

VARIABLES
    fetch_pc,       \* download_filings: "idle", "index", "docs", "done" or "raised"
    query,          \* arguments of download_filings: cik (zero-padded), form_type
    quarter,        \* the quarter _parse_form_idx is called for next
    all_reports,    \* get_sec_index_data: the index rows collected so far
    todo,           \* company_filings still to be iterated over
    downloaded_filings, \* the filing_info records appended so far
    http_log,       \* the GETs session.get has sent, in order
    rate_steps      \* rate-limiting steps the downloader has completed

fetchVars == <<fetch_pc, query, quarter, all_reports, todo, downloaded_filings,
               http_log, rate_steps>>

VARIABLES
    accession_info_file, \* accession_info.csv: None, or Some(rows)
    company_info_file,   \* company_info.csv: None, or Some(rows)
    holdings_files,      \* holdings/<cik>/<accession>.csv: name -> Some(rows)
    ingested,            \* number of process_filing calls so far
    last_call            \* the latest process_filing call and how it ended

sinkVars == <<accession_info_file, company_info_file, holdings_files, ingested,
              last_call>>

VARIABLES
    content,        \* the text given to extract_xml: its ids and its lines
    xml_found       \* None, or what extract_xml returned for content

xmlVars == <<content, xml_found>>

VARIABLES
    header,         \* the header lines given to parse_company_info
    company_info    \* None, or what parse_company_info returned for header

headerVars == <<header, company_info>>

VARIABLES
    fragment,        \* the XML fragment given to parse_holdings, with its ids
    missing_as_text, \* whether astype(str) writes a missing cell as text
    holdings_found   \* None, or the rows parse_holdings returned for fragment

tableVars == <<fragment, missing_as_text, holdings_found>>

VARIABLES
    accession_tokens, \* the ACCESSION NUMBER tokens of two documents
    stored_keys       \* per document: None, or the key its holdings are stored under

keyVars == <<accession_tokens, stored_keys>>

VARIABLES
    declared_type,  \* the form_type argument of create_parser, or None
    filing_content, \* the content argument of create_parser, or None
    parser_created, \* None, or the class of the parser create_parser returned
    process_outcome \* None, or how process_filing on that parser ended

factoryVars == <<declared_type, filing_content, parser_created, process_outcome>>

VARIABLES
    single_call,    \* the arguments of _download_single_filing
    single_result,  \* None, or the GET it sent and how it ended
    directories,    \* the directories that exist under the working directory
    raw_files       \* the files that exist, each with its path and content

rawVars == <<single_call, single_result, directories, raw_files>>

VARIABLES
    idx_response,   \* the status and the lines of the form.idx a GET came back with
    idx_entries     \* None, or the entries _parse_form_idx returned for it

idxVars == <<idx_response, idx_entries>>

VARIABLES
    worker_pc,      \* where each worker is in save_company_info
    worker_row,     \* the company row each worker saves
    worker_df     \* the table each worker read, merged with its row

workerVars == <<worker_pc, worker_row, worker_df>>

ioVars == <<rawVars, idxVars, workerVars>>

parseVars == <<xmlVars, headerVars, tableVars, keyVars, factoryVars, ioVars>>

vars == <<bucketVars, globalVars, fetchVars, sinkVars, parseVars>>

\* ------------------------------------------------- TokenBucketRateLimiter

\* TokenBucketRateLimiter.__init__(rate, capacity) at time t
TokenBucketInit(rate, capacity, t) ==
    LET cap == IF capacity # None THEN Val(capacity) ELSE rate
    IN  [rate |-> rate, capacity |-> cap, tokens |-> cap, last_refill_time |-> t]

\* _refill that forgets the cap at capacity
RefillUncapped(b, t) ==
    [b EXCEPT !.tokens = b.tokens + (t - b.last_refill_time) * b.rate,
              !.last_refill_time = t]

\* _refill that forgets to advance last_refill_time
RefillStaleClock(b, t) ==
    [b EXCEPT !.tokens = Min(b.capacity, b.tokens + (t - b.last_refill_time) * b.rate)]

\* TokenBucketRateLimiter._refill at time t
Refill(b, t) ==
    LET elapsed == t - b.last_refill_time
        new_tokens == elapsed * b.rate
    IN  [b EXCEPT !.tokens = Min(b.capacity, b.tokens + new_tokens),
                  !.last_refill_time = t]

\* a lock that never excludes anybody
LockAlwaysFree(t) == TRUE

\* `with self.lock` can be entered by t (an RLock: free, or already t's)
LockFree(t) == lock = Unlocked \/ lock = t

\* The decision of acquire between the first _refill and the sleep: take the
\* tokens, fail, or sleep until a tick.
Take == [kind |-> "take", until |-> 0]
Fail == [kind |-> "fail", until |-> 0]
Sleep(until) == [kind |-> "sleep", until |-> until]

\* acquire that ignores `if not block`
OutcomeIgnoresBlock(b, c, t) ==
    LET deficit == c.tokens - b.tokens
    IN  IF b.tokens >= c.tokens THEN Take
        ELSE IF c.timeout # None /\ deficit > Val(c.timeout) * b.rate THEN Fail
        ELSE IF c.timeout # None /\ now - start_time[t] >= Val(c.timeout) THEN Fail
        ELSE Sleep(now + CeilDiv(deficit, b.rate))

\* acquire that sleeps too short (the wait rounded down)
OutcomeShortSleep(b, c, t) ==
    LET deficit == c.tokens - b.tokens
    IN  IF b.tokens >= c.tokens THEN Take
        ELSE IF ~c.block THEN Fail
        ELSE IF c.timeout # None /\ deficit > Val(c.timeout) * b.rate THEN Fail
        ELSE IF c.timeout # None /\ now - start_time[t] >= Val(c.timeout) THEN Fail
        ELSE Sleep(now + ((deficit - 1) \div b.rate))

\* acquire, lines 60-90: b is the bucket after _refill, c the call's arguments.
\* wait_time = deficit / rate, so wait_time > timeout iff deficit > timeout * rate;
\* a sleep of wait_time seconds has ended at the first tick >= now + wait_time.
Outcome(b, c, t) ==
    LET deficit == c.tokens - b.tokens
        wait_time == CeilDiv(deficit, b.rate)
        remaining_timeout == Val(c.timeout) - (now - start_time[t])
    IN  IF b.tokens >= c.tokens THEN Take
        ELSE IF ~c.block THEN Fail
        ELSE IF c.timeout # None /\ deficit > Val(c.timeout) * b.rate THEN Fail
        ELSE IF c.timeout # None /\ now - start_time[t] >= Val(c.timeout) THEN Fail
        ELSE IF deficit > 0
             THEN IF c.timeout # None
                  THEN IF Min(wait_time, remaining_timeout) <= 0
                       THEN Fail
                       ELSE Sleep(now + Min(wait_time, remaining_timeout))
                  ELSE Sleep(now + wait_time)
             ELSE Take

\* leaving `with self.lock` with return value r
NoCall == [tokens |-> 0, block |-> FALSE, timeout |-> None]

\* leaving `with self.lock` by a return; the call's locals are gone.
\* (The value returned is True from the deduction, False from anywhere else.)
Return(t) ==
    /\ pc' = [pc EXCEPT ![t] = "idle"]
    /\ lock' = Unlocked
    /\ call' = [call EXCEPT ![t] = NoCall]
    /\ start_time' = [start_time EXCEPT ![t] = 0]
    /\ sleep_until' = [sleep_until EXCEPT ![t] = 0]
    /\ refilled' = [refilled EXCEPT ![t] = 0]
    /\ slept' = [slept EXCEPT ![t] = FALSE]

\* acquire is called: start_time = time.time()  (line 55).
\* start_time is read only under `timeout is not None` (lines 78, 85) and only
\* before the sleep; it is kept in the state only while it can still be read.
AcquireCall(t, cost, block, timeout) ==
    /\ pc[t] = "idle"
    /\ limiter # NoBucket
    /\ call' = [call EXCEPT ![t] = [tokens |-> cost, block |-> block, timeout |-> timeout]]
    /\ start_time' = [start_time EXCEPT ![t] = IF block /\ timeout # None THEN now ELSE 0]
    /\ pc' = [pc EXCEPT ![t] = "wait_lock"]
    /\ UNCHANGED <<now, limiter, lock, sleep_until, refilled, slept,
                   window_start, window_granted, globalVars,
                   fetchVars, sinkVars, parseVars>>

\* with self.lock: self._refill(), then the tests of lines 60-88, up to the
\* deduction, a return of False or the call of time.sleep
AcquireEnter(t) ==
    /\ pc[t] = "wait_lock"
    /\ LockFree(t)
    /\ limiter' = Refill(limiter, now)
    /\ LET o == Outcome(limiter', call[t], t)
       IN  CASE o.kind = "take" ->
                   /\ pc' = [pc EXCEPT ![t] = "deduct"]
                   /\ lock' = t
                   /\ refilled' = [refilled EXCEPT ![t] = limiter'.tokens]
                   /\ start_time' = [start_time EXCEPT ![t] = 0]
                   /\ UNCHANGED <<sleep_until, slept, call>>
             [] o.kind = "fail" ->
                   Return(t)
             [] OTHER ->
                   /\ pc' = [pc EXCEPT ![t] = "sleep"]
                   /\ lock' = t
                   /\ refilled' = [refilled EXCEPT ![t] = limiter'.tokens]
                   /\ sleep_until' = [sleep_until EXCEPT ![t] = o.until]
                   /\ slept' = [slept EXCEPT ![t] = TRUE]
                   /\ start_time' = [start_time EXCEPT ![t] = 0]
                   /\ UNCHANGED call
    /\ UNCHANGED <<now, window_start, window_granted, globalVars,
                   fetchVars, sinkVars, parseVars>>

\* self.tokens -= tokens; return True  (lines 62-63, 97-98)
AcquireDeduct(t) ==
    /\ pc[t] = "deduct"
    /\ limiter' = [limiter EXCEPT !.tokens = @ - call[t].tokens]
    \* the acquisition happens at the time its _refill read (line 32)
    /\ window_granted' = IF limiter.last_refill_time >= window_start
                          THEN window_granted + call[t].tokens ELSE window_granted
    /\ Return(t)
    /\ UNCHANGED <<now, window_start, globalVars, fetchVars, sinkVars, parseVars>>

\* time.sleep(wait_time) has returned: self._refill(), then
\* if self.tokens >= tokens ... else return False  (lines 90-101)
AcquireWake(t) ==
    /\ pc[t] = "sleep"
    /\ now >= sleep_until[t]
    /\ limiter' = Refill(limiter, now)
    /\ IF limiter'.tokens >= call[t].tokens
       THEN /\ pc' = [pc EXCEPT ![t] = "deduct"]
            /\ refilled' = [refilled EXCEPT ![t] = limiter'.tokens]
            /\ UNCHANGED <<lock, call, start_time, sleep_until, slept>>
       ELSE Return(t)
    /\ UNCHANGED <<now, window_start, window_granted, globalVars,
                   fetchVars, sinkVars, parseVars>>

\* the clock advances
Tick ==
    /\ now < MaxTime
    /\ now' = now + 1
    /\ UNCHANGED <<limiter, lock, pc, call, start_time, sleep_until,
                   refilled, slept, window_start, window_granted, globalVars,
                   fetchVars, sinkVars, parseVars>>

\* ------------------------------------------------------ GlobalRateLimiter

\* rate * safety_factor, the factor given in tenths
EffectiveRate(rate, tenths) == (rate * tenths) \div 10

\* GlobalRateLimiter.__new__: the object id it returns
New(inst, made) == IF inst = NoObject THEN made + 1 ELSE inst

NoArgs == [rate |-> 0, tenths |-> 0]

\* GlobalRateLimiter(rate, safety_factor) is called: __new__, lines 116-121,
\* under cls._lock
GlobalNew(t, rate, tenths) ==
    /\ constructions < MaxConstructions
    /\ pc[t] = "idle"
    /\ gpc[t] = "idle"
    /\ LET obj == New(instance, objects)
           fresh == obj # instance
       IN  /\ instance' = obj
           /\ objects' = IF fresh THEN objects + 1 ELSE objects
           /\ initialized' = IF fresh THEN FALSE ELSE initialized
           /\ returned' = returned \cup {obj}
    /\ gpc' = [gpc EXCEPT ![t] = "init"]
    /\ gargs' = [gargs EXCEPT ![t] = [rate |-> rate, tenths |-> tenths]]
    /\ constructions' = constructions + 1
    /\ UNCHANGED first_args
    /\ UNCHANGED <<bucketVars, fetchVars, sinkVars, parseVars>>

\* __init__, lines 131-133: the test of self._initialized, made without a lock
GlobalInitCheck(t) ==
    /\ gpc[t] = "init"
    /\ IF initialized
       THEN /\ gpc' = [gpc EXCEPT ![t] = "idle"]
            /\ gargs' = [gargs EXCEPT ![t] = NoArgs]
       ELSE /\ gpc' = [gpc EXCEPT ![t] = "build"]
            /\ UNCHANGED gargs
    /\ UNCHANGED <<instance, initialized, objects, returned, first_args, constructions>>
    /\ UNCHANGED <<bucketVars, fetchVars, sinkVars, parseVars>>

\* __init__, lines 135-136: self.limiter = TokenBucketRateLimiter(...), a new
\* object with a lock of its own; a call still running on the bucket it
\* replaces finishes on that bucket, which nobody else can reach any more
GlobalInitBuild(t) ==
    /\ gpc[t] = "build"
    /\ limiter' = TokenBucketInit(EffectiveRate(gargs[t].rate, gargs[t].tenths), None, now)
    /\ lock' = Unlocked
    /\ pc' = [u \in Threads |-> IF pc[u] = "idle" THEN "idle" ELSE "orphan"]
    /\ initialized' = TRUE
    /\ first_args' = IF first_args = None THEN Some(gargs[t]) ELSE first_args
    /\ gpc' = [gpc EXCEPT ![t] = "idle"]
    /\ gargs' = [gargs EXCEPT ![t] = NoArgs]
    /\ UNCHANGED <<now, call, start_time, sleep_until, refilled, slept,
                   window_start, window_granted>>
    /\ UNCHANGED <<instance, objects, returned, constructions>>
    /\ UNCHANGED <<fetchVars, sinkVars, parseVars>>

\* a call on a replaced bucket returns
OrphanReturn(t) ==
    /\ pc[t] = "orphan"
    /\ pc' = [pc EXCEPT ![t] = "idle"]
    /\ call' = [call EXCEPT ![t] = NoCall]
    /\ start_time' = [start_time EXCEPT ![t] = 0]
    /\ sleep_until' = [sleep_until EXCEPT ![t] = 0]
    /\ refilled' = [refilled EXCEPT ![t] = 0]
    /\ slept' = [slept EXCEPT ![t] = FALSE]
    /\ UNCHANGED <<now, limiter, lock, window_start, window_granted>>
    /\ UNCHANGED <<globalVars, fetchVars, sinkVars, parseVars>>

\* GlobalRateLimiter.acquire: self.limiter.acquire(tokens=1, block, timeout),
\* by a thread that holds a constructed object
GlobalAcquire(t, block, timeout) ==
    /\ initialized
    /\ gpc[t] = "idle"
    /\ AcquireCall(t, 1, block, timeout)

\* ------------------------------------------------------------ SECDownloader

\* what the archive may hold: the row of one index line, as _parse_form_idx and
\* get_sec_index_data see it: its form type, and the entity id and accession
\* number in its filename (cik 0: the filename does not match the pattern)
FormTypes == {"13F-HR", "10-K"}
Ciks == {1, 2}
AccessionNumbers == {101, 102}
IndexRows ==
    { [form_type |-> "13F-HR",   cik |-> 1, accession_number |-> 101],
      [form_type |-> "13F-HR/A", cik |-> 1, accession_number |-> 102],
      [form_type |-> "10-K",     cik |-> 2, accession_number |-> 101],
      [form_type |-> "13F-HR",   cik |-> 0, accession_number |-> 0] }
IndexPages == UNION {[1..n -> IndexRows] : n \in 0..MaxRows}
\* RETRY_STATUS_CODES: the statuses the session retries on
RETRY_STATUS_CODES == {429, 500, 502, 503, 504}

\* the status a GET ends with, after the retries if it is one of those
Statuses == {200, 404, 503}

\* self.session.get through the adapter of _setup_session: a Retry built
\* without raise_on_status=False gives up on a status of status_forcelist by
\* raising (requests.exceptions.RetryError); any other status comes back as a
\* response
SessionGetRaises(status) == status \in RETRY_STATUS_CODES

\* str.contains(form_type): the queried type is a substring of the row's type
Contains(row_type, form_type) ==
    \/ row_type = form_type
    \/ row_type = "13F-HR/A" /\ form_type = "13F-HR"

\* SelectSeq with the test inlined as a set of wanted elements
Filter(seq, wanted) == SelectSeq(seq, LAMBDA x : x \in wanted)

\* download_filings, lines 69-73: the rows of the combined index that match
company_filings(index_data, q) ==
    Filter(index_data,
           {r \in IndexRows : r.cik = q.cik /\ Contains(r.form_type, q.form_type)})

\* one GET through self.session.get(url, headers=self.headers)
Get(kind, what, status) ==
    [kind |-> kind, url |-> what, status |-> status, rate_steps |-> rate_steps]

\* download_filings is called: cik = str(cik).zfill(10)
DownloadFilings(cik, form_type) ==
    /\ fetch_pc = "idle"
    /\ query' = [cik |-> cik, form_type |-> form_type]
    /\ quarter' = 1
    /\ fetch_pc' = "index"
    /\ UNCHANGED <<all_reports, todo, downloaded_filings, http_log, rate_steps>>
    /\ UNCHANGED <<bucketVars, globalVars, sinkVars, parseVars>>

\* _parse_form_idx(year, quarter) inside get_sec_index_data's loop; after the
\* fourth quarter the index is combined and filtered (lines 205-224, 69-76)
ParseFormIdx(status, page) ==
    /\ fetch_pc = "index"
    /\ http_log' = Append(http_log, Get("index", quarter, status))
    /\ IF SessionGetRaises(status)
       THEN /\ fetch_pc' = "raised"
            /\ UNCHANGED <<all_reports, quarter, todo>>
       ELSE LET df == IF status # 200 THEN <<>> ELSE page
                reports == all_reports \o df
            IN  /\ all_reports' = reports
                /\ IF quarter < 4
                   THEN /\ quarter' = quarter + 1
                        /\ UNCHANGED <<fetch_pc, todo>>
                   ELSE /\ quarter' = quarter
                        /\ todo' = company_filings(reports, query)
                        /\ fetch_pc' = IF todo' = <<>> THEN "done" ELSE "docs"
    /\ UNCHANGED <<query, downloaded_filings, rate_steps>>
    /\ UNCHANGED <<bucketVars, globalVars, sinkVars, parseVars>>

\* one iteration of the loop of lines 80-95: _download_single_filing
DownloadSingleFiling(status) ==
    /\ fetch_pc = "docs"
    /\ todo # <<>>
    /\ LET filing == Head(todo)
       IN  /\ http_log' = Append(http_log,
                                 Get("document", filing.accession_number, status))
           /\ downloaded_filings' =
                 IF status # 200 THEN downloaded_filings
                 ELSE Append(downloaded_filings,
                             [cik |-> query.cik,
                              accession_number |-> filing.accession_number,
                              form_type |-> query.form_type])
    /\ IF SessionGetRaises(status)
       THEN /\ fetch_pc' = "raised"
            /\ UNCHANGED todo
       ELSE /\ todo' = Tail(todo)
            /\ fetch_pc' = IF todo' = <<>> THEN "done" ELSE "docs"
    /\ UNCHANGED <<query, quarter, all_reports, rate_steps>>
    /\ UNCHANGED <<bucketVars, globalVars, sinkVars, parseVars>>

\* ------------------------------------- Form13FParser and DataOrganizer

\* A document as the extraction sees it: the digits after CENTRAL INDEX KEY
\* (None: no such line), whether they are at least ten digits, the text after
\* COMPANY CONFORMED NAME, the accession number after ACCESSION NUMBER (None:
\* no such line), whether extract_xml finds a fragment, and the holdings rows
\* parse_holdings returns for it (none when the fragment is not XML).
HoldingsTables == {<<>>, <<"APPLE INC">>}
Names == {"TEST COMPANY INC", "TEST COMPANY LLC"}
Documents ==
    { d \in [cik : {None} \cup {Some(c) : c \in Ciks},
             ten_digits : BOOLEAN,
             name : Names,
             accession_number : {None} \cup {Some(a) : a \in AccessionNumbers},
             xml_data : BOOLEAN,
             holdings : HoldingsTables] :
        /\ ~d.xml_data => d.holdings = <<>>
        /\ d.cik = None => ~d.ten_digits }

\* a CSV cell written from a str and one read back by pd.read_csv, which
\* parses an all-digits column as integers
StrCell(n) == [type |-> "str", v |-> n]
IntCell(n) == [type |-> "int", v |-> n]
read_csv(rows) ==
    [i \in DOMAIN rows |-> [rows[i] EXCEPT !.CIK = IntCell(rows[i].CIK.v)]]

\* parse_company_info: the CIK is the matched text
parse_company_info(doc) ==
    [CIK |-> IF doc.cik = None THEN None ELSE Some(StrCell(Val(doc.cik))),
     COMPANY_CONFORMED_NAME |-> doc.name]

\* parse_accession_info: CIK needs \d{10}; both are converted with astype(float)
parse_accession_info(doc) ==
    [CIK |-> IF doc.cik # None /\ doc.ten_digits THEN doc.cik ELSE None,
     ACCESSION_NUMBER |-> doc.accession_number]

\* save_accession_info: to_csv(mode='a')
save_accession_info(file, row) ==
    IF file = None THEN Some(<<row>>) ELSE Some(Append(Val(file), row))

\* save_company_info, lines 55-73
save_company_info(file, row) ==
    IF file = None THEN Some(<<row>>)
    ELSE LET existing_df == read_csv(Val(file))
             new_cik == row.CIK
         IN  IF \E i \in DOMAIN existing_df : existing_df[i].CIK = new_cik
             THEN Some([i \in DOMAIN existing_df |->
                          IF existing_df[i].CIK = new_cik THEN row ELSE existing_df[i]])
             ELSE Some(Append(existing_df, row))

\* a save_holdings that opens the file of the key for appending
save_holdings_appending(files, holdings_df, cik, accession_number) ==
    [files EXCEPT ![<<cik, accession_number>>] =
        IF @ = None THEN Some(holdings_df) ELSE Some(Val(@) \o holdings_df)]

\* save_holdings: the file of (cik, accession_number) is overwritten
save_holdings(files, holdings_df, cik, accession_number) ==
    [files EXCEPT ![<<cik, accession_number>>] = Some(holdings_df)]

\* int(accession_info_df[...].iloc[0]) of lines 105-106 raises on pd.NA
IdsMissing(accession_info_df) ==
    accession_info_df.CIK = None \/ accession_info_df.ACCESSION_NUMBER = None

\* a process_filing_data that saves the two tables and no holdings
ProcessFilingDataTablesOnly(doc) ==
    LET company_info_df == parse_company_info(doc)
        accession_info_df == parse_accession_info(doc)
        cik == Val(accession_info_df.CIK)
        accession_number == Val(accession_info_df.ACCESSION_NUMBER)
    IN  /\ accession_info_file' =
              save_accession_info(accession_info_file,
                  [CIK |-> cik, ACCESSION_NUMBER |-> accession_number])
        /\ company_info_file' =
              save_company_info(company_info_file,
                  [CIK |-> Val(company_info_df.CIK),
                   COMPANY_CONFORMED_NAME |-> company_info_df.COMPANY_CONFORMED_NAME])
        /\ UNCHANGED holdings_files

\* DataOrganizer.process_filing_data, lines 105-111, for ids that are present
ProcessFilingData(doc) ==
    LET company_info_df == parse_company_info(doc)
        accession_info_df == parse_accession_info(doc)
        cik == Val(accession_info_df.CIK)
        accession_number == Val(accession_info_df.ACCESSION_NUMBER)
    IN  /\ accession_info_file' =
              save_accession_info(accession_info_file,
                  [CIK |-> cik, ACCESSION_NUMBER |-> accession_number])
        /\ company_info_file' =
              save_company_info(company_info_file,
                  [CIK |-> Val(company_info_df.CIK),
                   COMPANY_CONFORMED_NAME |-> company_info_df.COMPANY_CONFORMED_NAME])
        /\ holdings_files' =
              save_holdings(holdings_files, doc.holdings, cik, accession_number)

\* what the caller of process_filing saw
Called(parser, doc, saved, raised) ==
    Some([parser |-> parser, doc |-> doc, saved |-> saved, raised |-> raised])

\* Form13FParser.process_filing(content) with DataOrganizer.process_filing_data:
\* int() of an absent CIK or accession number raises before anything is saved,
\* and process_filing swallows the exception
ProcessFiling(doc) ==
    /\ ingested < MaxIngest
    /\ ingested' = ingested + 1
    /\ IF IdsMissing(parse_accession_info(doc))
       THEN /\ UNCHANGED <<accession_info_file, company_info_file, holdings_files>>
            /\ last_call' = Called("Form13FParser", doc, FALSE, FALSE)
       ELSE /\ ProcessFilingData(doc)
            /\ last_call' = Called("Form13FParser", doc, TRUE, FALSE)
    /\ UNCHANGED <<bucketVars, globalVars, fetchVars, parseVars>>

\* SECFilingParser.process_filing(content), core/parser.py: the sink is called
\* only under `if xml_data:`, and nothing catches what it raises
SECProcessFiling(doc) ==
    /\ ingested < MaxIngest
    /\ ingested' = ingested + 1
    /\ IF ~doc.xml_data
       THEN /\ UNCHANGED <<accession_info_file, company_info_file, holdings_files>>
            /\ last_call' = Called("SECFilingParser", doc, FALSE, FALSE)
       ELSE IF IdsMissing(parse_accession_info(doc))
       THEN /\ UNCHANGED <<accession_info_file, company_info_file, holdings_files>>
            /\ last_call' = Called("SECFilingParser", doc, FALSE, TRUE)
       ELSE /\ ProcessFilingData(doc)
            /\ last_call' = Called("SECFilingParser", doc, TRUE, FALSE)
    /\ UNCHANGED <<bucketVars, globalVars, fetchVars, parseVars>>

\* ------------------------------------------------------------ extract_xml

\* The text after the header, line by line: the <XML> and </XML> delimiters,
\* an XML declaration, the opening and the closing tag of an informationTable
\* element, and any other line.
Tokens == {"<XML>", "</XML>", "<?xml?>", "<informationTable>",
           "</informationTable>", "text"}
Bodies == UNION {[1..n -> Tokens] : n \in 0..MaxTokens}
Contents ==
    [accession_number : {None, Some("000-12345-6789")},
     conformed_date : {None, Some("20231231")},
     body : Bodies]

\* [match.start() for match in re.finditer(tok, content)]
Positions(body, tok) ==
    SelectSeq([i \in 1..Len(body) |-> i], LAMBDA i : body[i] = tok)

\* list(zip(a, b))
Zip(a, b) == [i \in 1..Min(Len(a), Len(b)) |-> <<a[i], b[i]>>]

\* content[start:end + len(closing tag)]
Slice(body, start, end) == IF end < start THEN <<>> ELSE SubSeq(body, start, end)

\* re.sub(r'\n<\?xml.*?\?>', '', xml_content)
StripProlog(xml_content) == SelectSeq(xml_content, LAMBDA t : t # "<?xml?>")

\* list(zip(xml_start_tags, xml_end_tags))
xml_indices(body) == Zip(Positions(body, "<XML>"), Positions(body, "</XML>"))

\* the second <XML> section if there are two, else the first
SecondOrFirst(body) ==
    LET idx == xml_indices(body)
        pair == IF Len(idx) > 1 THEN idx[2] ELSE idx[1]
    IN  StripProlog(Slice(body, pair[1], pair[2]))

\* the closing tag built from the name of an opening tag
ClosingTag(tag) ==
    CASE tag = "<XML>" -> "</XML>"
      [] tag = "<informationTable>" -> "</informationTable>"
      [] OTHER -> "<//>"

\* re.search(r'<[^?][^>]*>', content[start_index:]): the first tag after the
\* declaration that is not itself a declaration
IsTag(t) == t \in {"<XML>", "</XML>", "<informationTable>", "</informationTable>"}

\* Form13FParser.extract_xml, method 2: from the XML declaration to the last
\* closing tag of the first element after it
AfterDeclaration(body) ==
    LET decls == Positions(body, "<?xml?>")
    IN  IF decls = <<>> THEN None
        ELSE LET start_index == decls[1]
                 tags == SelectSeq([i \in 1..Len(body) |-> i],
                                   LAMBDA i : i > start_index /\ IsTag(body[i]))
             IN  IF tags = <<>> THEN None
                 ELSE LET closing == Positions(body, ClosingTag(body[tags[1]]))
                          after == SelectSeq(closing, LAMBDA i : i > start_index)
                      IN  IF after = <<>> THEN None
                          ELSE Some(Slice(body, start_index, after[Len(after)]))

\* Form13FParser.extract_xml, method 3: the first informationTable element,
\* wrapped in <XML> ... </XML>
InformationTable(body) ==
    LET opens == Positions(body, "<informationTable>")
    IN  IF opens = <<>> THEN None
        ELSE LET closes == SelectSeq(Positions(body, "</informationTable>"),
                                     LAMBDA i : i > opens[1])
             IN  IF closes = <<>> THEN None
                 ELSE Some(<<"<XML>">> \o Slice(body, opens[1], closes[1])
                                       \o <<"</XML>">>)

\* SECFilingParser.extract_xml: the fragment it returns
SECFragment(body) ==
    IF xml_indices(body) # <<>> THEN Some(SecondOrFirst(body)) ELSE None

\* Form13FParser.extract_xml: the fragment it returns
Fragment(body) ==
    IF xml_indices(body) # <<>> THEN Some(SecondOrFirst(body))
    ELSE IF AfterDeclaration(body) # None THEN AfterDeclaration(body)
    ELSE InformationTable(body)

\* extract_xml(content) of either parser is called
ExtractXml(parser) ==
    /\ xml_found = None
    /\ xml_found' = Some([parser |-> parser,
                          xml_data |-> IF parser = "SECFilingParser"
                                       THEN SECFragment(content.body)
                                       ELSE Fragment(content.body),
                          accession_number |-> content.accession_number,
                          conformed_date |-> content.conformed_date])
    /\ UNCHANGED content
    /\ UNCHANGED <<bucketVars, globalVars, fetchVars, sinkVars, headerVars,
                   tableVars, keyVars, factoryVars, ioVars>>

\* ----------------------------------------------------- parse_company_info

\* Three of the fields of the patterns table, one for each kind of capture
\* group: (.+), (\d+) and ([A-Z]+).
Fields == {"COMPANY_CONFORMED_NAME", "IRS_NUMBER", "STATE_INC"}

\* the label a field's pattern looks for
Label(field) ==
    CASE field = "COMPANY_CONFORMED_NAME" -> "COMPANY CONFORMED NAME:"
      [] field = "IRS_NUMBER" -> "IRS NUMBER:"
      [] field = "STATE_INC" -> "STATE OF INCORPORATION:"

\* the capture group of a field's pattern
Group(field) ==
    CASE field = "COMPANY_CONFORMED_NAME" -> "(.+)"
      [] field = "IRS_NUMBER" -> "(\\d+)"
      [] field = "STATE_INC" -> "([A-Z]+)"

Labels == {Label(f) : f \in Fields}

\* what follows a label on its line: nothing, capital letters, or digits
Values == {"", "DE", "770"}

\* a header is a sequence of lines "LABEL:     value", the label padded with
\* two or more blanks as in the sample filing
HeaderLines == [label : Labels, value : Values]
Headers == UNION {[1..n -> HeaderLines] : n \in 0..MaxLines}

\* the capital letters a line starts with
FirstWord(label) ==
    CASE label = "COMPANY CONFORMED NAME:" -> "COMPANY"
      [] label = "IRS NUMBER:" -> "IRS"
      [] label = "STATE OF INCORPORATION:" -> "STATE"

\* What LABEL:\s+(group) captures at line i, or None when it does not match
\* there. \s+ takes the white space after the label, the end of the line
\* included: after an empty value the group is matched against the next line,
\* and on the last line (.+) is left the last blank of the padding, which
\* strip() turns into the empty string.
MatchAt(lines, i, group) ==
    LET value == lines[i].value
    IN  IF value # ""
        THEN CASE group = "(.+)" -> Some(<<value>>)
               [] group = "(\\d+)" -> IF value = "770" THEN Some(<<value>>) ELSE None
               [] group = "([A-Z]+)" -> IF value = "DE" THEN Some(<<value>>) ELSE None
        ELSE IF i = Len(lines)
        THEN IF group = "(.+)" THEN Some(<<"">>) ELSE None
        ELSE CASE group = "(.+)" -> Some(<<lines[i + 1].label, lines[i + 1].value>>)
               [] group = "(\\d+)" -> None
               [] group = "([A-Z]+)" -> Some(<<FirstWord(lines[i + 1].label)>>)

\* match = re.search(pattern, content); match.group(1) if match else pd.NA
Search(lines, field) ==
    LET hits == SelectSeq([i \in 1..Len(lines) |-> i],
                          LAMBDA i : /\ lines[i].label = Label(field)
                                     /\ MatchAt(lines, i, Group(field)) # None)
    IN  IF hits = <<>> THEN None ELSE MatchAt(lines, hits[1], Group(field))

\* the info dictionary: one entry per field, each from its own search
CompanyInfo(lines) == [field \in Fields |-> Search(lines, field)]

\* parse_company_info(content) of SECFilingParser or of BaseFilingParser
ParseCompanyInfo(parser) ==
    /\ company_info = None
    /\ company_info' = Some([parser |-> parser, info |-> CompanyInfo(header)])
    /\ UNCHANGED header
    /\ UNCHANGED <<bucketVars, globalVars, fetchVars, sinkVars, xmlVars,
                   tableVars, keyVars, factoryVars, ioVars>>

\* --------------------------------------------------------- parse_holdings

\* A sub-element of a table entry: absent, present without text (its .text is
\* None), or present with text.
Absent == [kind |-> "absent", s |-> ""]
Empty == [kind |-> "empty", s |-> ""]
Text(s) == [kind |-> "text", s |-> s]

\* the entries of a table: issuer, CUSIP, value and quantity sub-elements
Entries ==
    [nameOfIssuer : {Absent, Text("APPLE INC")},
     cusip : {Text("037833100")},
     value : {Absent, Empty, Text(" "), Text("abc"), Text("1000000")},
     sshPrnamt : {Absent, Text("10000")}]

\* A fragment: whether it is well-formed XML, whether its elements are in the
\* thirteenf informationtable namespace, whether the sub-elements of an entry
\* are wrapped in an infoTable element or are children of informationTable
\* itself, and the entries.
Fragments ==
    {f \in [accession_number : {Some("000-12345-6789")},
            conformed_date : {Some("20231231")},
            well_formed : BOOLEAN,
            namespace : BOOLEAN,
            layout : {"infoTable", "flat"},
            entries : UNION {[1..n -> Entries] : n \in 0..MaxEntries}] :
        f.layout = "flat" => Len(f.entries) = 1}

\* the table of SAMPLE_FILING as extract_xml returns it
SampleFragment ==
    [accession_number |-> Some("000-12345-6789"),
     conformed_date |-> Some("20231231"),
     well_formed |-> TRUE,
     namespace |-> FALSE,
     layout |-> "flat",
     entries |-> <<[nameOfIssuer |-> Text("APPLE INC"),
                    cusip |-> Text("037833100"),
                    value |-> Text("1000000"),
                    sshPrnamt |-> Text("10000")]>>]

\* the cells of the DataFrame before conversion: pd.NA, None, or a string
NA == [kind |-> "NA", s |-> ""]
NoneText == [kind |-> "None", s |-> ""]
Str(s) == [kind |-> "str", s |-> s]

\* root.findall('.//ns1:infoTable', namespaces)
FindAll(f) ==
    IF f.namespace /\ f.layout = "infoTable" THEN f.entries ELSE <<>>

\* info_table.find(tag).text if info_table.find(tag) is not None else pd.NA
FindText(element) ==
    CASE element.kind = "absent" -> NA
      [] element.kind = "empty" -> NoneText
      [] element.kind = "text" -> Str(element.s)

\* .astype(str): a string stays; a missing cell becomes the text "<NA>" or
\* "None", or stays missing, as the installed pandas does
AsTypeStr(cell, as_text) ==
    CASE cell.kind = "str" -> cell
      [] cell.kind = "NA" -> IF as_text THEN Str("<NA>") ELSE NA
      [] cell.kind = "None" -> IF as_text THEN Str("None") ELSE NA

\* .str.replace(r'\s+', '', regex=True)
StripSpace(cell) == IF cell = Str(" ") THEN Str("") ELSE cell

\* .replace('', '0')
ZeroIfEmpty(cell) == IF cell = Str("") THEN Str("0") ELSE cell

\* the strings float() accepts, and their values
Numerals == {"0", "10000", "1000000"}
ToNumber(s) ==
    CASE s = "0" -> 0
      [] s = "10000" -> 10000
      [] s = "1000000" -> 1000000

\* .astype(float, errors='ignore').astype(pd.Int64Dtype()) on a column: the
\* integers, or None when the second astype raises because the first one left
\* the column of strings as it was
ToInt64(column) ==
    IF \A i \in DOMAIN column : column[i].kind = "NA" \/ column[i].s \in Numerals
    THEN Some([i \in DOMAIN column |->
                 IF column[i].kind = "NA" THEN None
                 ELSE Some(ToNumber(column[i].s))])
    ELSE None

\* the conversion of one numeric column of the table
ConvertColumn(column, as_text) ==
    ToInt64([i \in DOMAIN column |->
               ZeroIfEmpty(StripSpace(AsTypeStr(column[i], as_text)))])

\* parse_holdings(xml_data, accession_number, conformed_date): the rows of
\* the DataFrame it returns; <<>> is the empty DataFrame
parse_holdings(f, as_text) ==
    IF ~f.well_formed THEN <<>>
    ELSE LET tables == FindAll(f)
             SHARE_VALUE ==
                 ConvertColumn([i \in DOMAIN tables |-> FindText(tables[i].value)],
                               as_text)
             SHARE_AMOUNT ==
                 ConvertColumn([i \in DOMAIN tables |-> FindText(tables[i].sshPrnamt)],
                               as_text)
         IN  IF SHARE_VALUE = None \/ SHARE_AMOUNT = None THEN <<>>
             ELSE [i \in DOMAIN tables |->
                     [ACCESSION_NUMBER |-> f.accession_number,
                      CONFORMED_DATE |-> f.conformed_date,
                      NAME_OF_ISSUER |-> FindText(tables[i].nameOfIssuer),
                      CUSIP |-> FindText(tables[i].cusip),
                      SHARE_VALUE |-> Val(SHARE_VALUE)[i],
                      SHARE_AMOUNT |-> Val(SHARE_AMOUNT)[i]]]

\* parse_holdings of SECFilingParser or of Form13FParser is called
ParseHoldings(parser) ==
    /\ holdings_found = None
    /\ holdings_found' = Some([parser |-> parser,
                               rows |-> parse_holdings(fragment, missing_as_text)])
    /\ UNCHANGED <<fragment, missing_as_text>>
    /\ UNCHANGED <<bucketVars, globalVars, fetchVars, sinkVars, xmlVars,
                   headerVars, keyVars, factoryVars, ioVars>>

\* ------------------------------------------------------- accession number

\* a run of digits (\d+), and the token \d+-\d+-\d+ as its three runs
DigitRuns == UNION {[1..n -> {0, 1}] : n \in 1..MaxDigits}
AccessionTokens == DigitRuns \X DigitRuns \X DigitRuns

\* .str.replace('-', '', regex=False)
StripHyphens(token) == token[1] \o token[2] \o token[3]

\* .astype(float, errors='ignore'): the number a digit string denotes
RECURSIVE AsFloat(_)
AsFloat(digits) ==
    IF digits = <<>> THEN 0
    ELSE 10 * AsFloat(SubSeq(digits, 1, Len(digits) - 1)) + digits[Len(digits)]

\* str(int(x)): the decimal digits of a number
RECURSIVE StrInt(_)
StrInt(n) == IF n < 10 THEN <<n>> ELSE StrInt(n \div 10) \o <<n % 10>>

\* the ACCESSION_NUMBER cell parse_accession_info stores for a token
AccessionNumber(token) == AsFloat(StripHyphens(token))

\* accession_number in process_filing_data: the name of the holdings file
HoldingsKey(token) == StrInt(AccessionNumber(token))

\* a document is parsed and its holdings are stored under its key
StoreFiling(d) ==
    /\ stored_keys[d] = None
    /\ stored_keys' = [stored_keys EXCEPT ![d] = Some(HoldingsKey(accession_tokens[d]))]
    /\ UNCHANGED accession_tokens
    /\ UNCHANGED <<bucketVars, globalVars, fetchVars, sinkVars, xmlVars,
                   headerVars, tableVars, factoryVars, ioVars>>

\* ----------------------------------------------------------- ParserFactory

\* Form types are strings of word characters; what a document writes after
\* the CONFORMED SUBMISSION TYPE label may also hold "/", which [\w-] does
\* not match.
TypeChars == {"1", "3", "F"}
WrittenChars == TypeChars \cup {"/"}
TypeNames == UNION {[1..n -> TypeChars] : n \in 0..MaxTypeLen}
WrittenTypes == UNION {[1..n -> WrittenChars] : n \in 1..MaxTypeLen}

\* the content of a filing: None when it has no CONFORMED SUBMISSION TYPE
\* label, else what is written after the label
FilingContents == {None} \cup {Some(w) : w \in WrittenTypes}

\* ([\w-]+): the longest run of word characters a text starts with
RECURSIVE WordPrefix(_)
WordPrefix(text) ==
    IF text = <<>> \/ text[1] \notin TypeChars THEN <<>>
    ELSE <<text[1]>> \o WordPrefix(Tail(text))

\* ParserFactory._extract_form_type(content)
extract_form_type(c) ==
    IF c = None \/ WordPrefix(Val(c)) = <<>> THEN None
    ELSE Some(WordPrefix(Val(c)))

\* a dispatch test that looks at the start of the type only
Is13FPrefixOnly(t) == Len(t) >= 3 /\ SubSeq(t, 1, 3) = <<"1", "3", "F">>

\* form_type.startswith("13F") or "13F" in form_type
Is13F(t) ==
    \/ Len(t) >= 3 /\ SubSeq(t, 1, 3) = <<"1", "3", "F">>
    \/ \E i \in 1..(Len(t) - 2) : SubSeq(t, i, i + 2) = <<"1", "3", "F">>

\* ParserFactory.create_parser(form_type, content): the class it returns
create_parser(form_type, c) ==
    LET sniffed == IF form_type = None /\ c # None
                   THEN extract_form_type(Val(c))
                   ELSE form_type
    IN  IF sniffed # None /\ Val(sniffed) # <<>> /\ Is13F(Val(sniffed))
        THEN "Form13FParser"
        ELSE "BaseFilingParser"

\* create_parser is called
CreateParser ==
    /\ parser_created = None
    /\ parser_created' = Some(create_parser(declared_type, filing_content))
    /\ UNCHANGED <<declared_type, filing_content, process_outcome>>
    /\ UNCHANGED <<bucketVars, globalVars, fetchVars, sinkVars, xmlVars,
                   headerVars, tableVars, keyVars, ioVars>>

\* process_filing of the class: Form13FParser.process_filing wraps its whole
\* body in try/except Exception: pass; BaseFilingParser.process_filing is the
\* single statement raise NotImplementedError(...)
ProcessFilingRaises(parser) == parser = "BaseFilingParser"

\* parser.process_filing(content) on the parser create_parser returned
CallProcessFiling ==
    /\ parser_created # None
    /\ process_outcome = None
    /\ process_outcome' =
           Some([parser |-> Val(parser_created),
                 raised |-> ProcessFilingRaises(Val(parser_created))])
    /\ UNCHANGED <<declared_type, filing_content, parser_created>>
    /\ UNCHANGED <<bucketVars, globalVars, fetchVars, sinkVars, xmlVars,
                   headerVars, tableVars, keyVars, ioVars>>

\* ------------------------------------- _download_single_filing, raw files

\* Strings are sequences of characters here, so that replace, split, "in" and
\* the joining of paths are computed.
DigitChars == {"0", "1"}
DigitStrings == UNION {[1..n -> DigitChars] : n \in 1..MaxRun}

\* an accession number as given: digits-digits-digits
HyphenTokens ==
    {a \o <<"-">> \o b \o <<"-">> \o c : a \in DigitStrings, b \in {<<"0">>, <<"1", "0">>},
                                         c \in DigitStrings}

\* form types, amended ("/A") or not
RawFormTypes == {<<"K">>, <<"K", "/", "A">>, <<"F">>, <<"F", "/", "A">>}

SingleCalls ==
    [cik : DigitStrings, accession_number : HyphenTokens,
     form_type : RawFormTypes, save_raw : BOOLEAN,
     user_agent : {None, Some("test@example.com")}]

\* self.headers: DEFAULT_HEADERS, with the User-Agent given to __init__
RequestHeaders(user_agent) ==
    IF user_agent = None THEN [UserAgent |-> "default"]
    ELSE [UserAgent |-> Val(user_agent)]

\* accession_number.replace('-', '')
RemoveHyphens(text) == SelectSeq(text, LAMBDA ch : ch # "-")

\* int(cik) written back into the f-string: the digits without leading zeros
RECURSIVE IntDigits(_)
IntDigits(text) ==
    IF Len(text) > 1 /\ Head(text) = "0" THEN IntDigits(Tail(text)) ELSE text

\* the f-string of line 121, by its segments
UrlWithPaddedCik(cik, accession_number) ==
    [archive |-> "https://www.sec.gov/Archives/edgar/data",
     entity |-> cik,
     folder |-> RemoveHyphens(accession_number),
     file |-> accession_number \o <<".txt">>]

Url(cik, accession_number) ==
    [archive |-> "https://www.sec.gov/Archives/edgar/data",
     entity |-> IntDigits(cik),
     folder |-> RemoveHyphens(accession_number),
     file |-> accession_number \o <<".txt">>]

\* the first index at which the text holds "/A", or 0
RECURSIVE FindSlashA(_, _)
FindSlashA(text, i) ==
    IF i + 1 > Len(text) THEN 0
    ELSE IF text[i] = "/" /\ text[i + 1] = "A" THEN i
    ELSE FindSlashA(text, i + 1)

\* form_type.endswith("/A") or "/A" in form_type
is_amendment(form_type) == FindSlashA(form_type, 1) # 0

\* form_type.split("/A")[0] if is_amendment else form_type
base_form_type(form_type) ==
    IF is_amendment(form_type)
    THEN SubSeq(form_type, 1, FindSlashA(form_type, 1) - 1)
    ELSE form_type

\* the components of a relative path text: the runs between "/" characters
RECURSIVE Components(_)
Components(text) ==
    LET slashes == SelectSeq([i \in 1..Len(text) |-> i], LAMBDA i : text[i] = "/")
    IN  IF slashes = <<>> THEN <<text>>
        ELSE <<SubSeq(text, 1, slashes[1] - 1)>>
                 \o Components(SubSeq(text, slashes[1] + 1, Len(text)))

\* os.path.join(directory, name): a path is the sequence of its components
Join(directory, name) == directory \o Components(name)

\* os.makedirs(path, exist_ok=True): path and all the directories above it
MakeDirs(dirs, path) == dirs \cup {SubSeq(path, 1, n) : n \in 1..Len(path)}

\* DATA_DIR
DATA_DIR == <<"data">>

\* the directory _save_raw_filing writes into
output_dir(cik, form_type) ==
    LET cik_dir == Join(Join(<<DATA_DIR>>, <<"raw">>), cik)
        form_dir == Join(cik_dir, base_form_type(form_type))
    IN  IF is_amendment(form_type) THEN Join(form_dir, <<"A">>) ELSE form_dir

\* os.path.join(output_dir, f"{cik}_{form_type}_{accession_number}.txt")
output_path(cik, form_type, accession_number) ==
    Join(output_dir(cik, form_type),
         cik \o <<"_">> \o form_type \o <<"_">> \o accession_number \o <<".txt">>)

\* _save_raw_filing(cik, form_type, accession_number, content): the
\* directories and files afterwards, and the path returned, or raised = TRUE
\* when open() finds no directory to create the file in
save_raw_filing(dirs, files, cik, form_type, accession_number, body) ==
    LET made == MakeDirs(dirs, output_dir(cik, form_type))
        path == output_path(cik, form_type, accession_number)
        parent == SubSeq(path, 1, Len(path) - 1)
    IN  IF parent \in made
        THEN [directories |-> made,
              raw_files |-> {f \in files : f.path # path}
                               \cup {[path |-> path, content |-> body]},
              raw_path |-> Some(path), raised |-> FALSE]
        ELSE [directories |-> made, raw_files |-> files,
              raw_path |-> None, raised |-> TRUE]

\* _download_single_filing(cik, accession_number, form_type, save_raw), with
\* the status and the body the GET comes back with
DownloadSingle(status) ==
    /\ single_result = None
    /\ LET c == single_call
           url == Url(c.cik, c.accession_number)
           get == [url |-> url, headers |-> RequestHeaders(c.user_agent)]
           body == <<"<XML>Test Content</XML>">>
           saved == save_raw_filing(directories, raw_files, c.cik, c.form_type,
                                    c.accession_number, body)
       IN  IF status # 200
           THEN /\ single_result' = Some([get |-> get, status |-> status, body |-> body,
                                          raised |-> SessionGetRaises(status),
                                          filing_info |-> None])
                /\ UNCHANGED <<directories, raw_files>>
           ELSE IF ~c.save_raw
           THEN /\ single_result' =
                       Some([get |-> get, status |-> status, body |-> body,
                             raised |-> FALSE,
                             filing_info |-> Some([cik |-> c.cik,
                                                   accession_number |-> c.accession_number,
                                                   form_type |-> c.form_type,
                                                   raw_path |-> None,
                                                   url |-> url])])
                /\ UNCHANGED <<directories, raw_files>>
           ELSE /\ directories' = saved.directories
                /\ raw_files' = saved.raw_files
                /\ single_result' =
                       Some([get |-> get, status |-> status, body |-> body,
                             raised |-> saved.raised,
                             filing_info |->
                                 IF saved.raised THEN None
                                 ELSE Some([cik |-> c.cik,
                                            accession_number |-> c.accession_number,
                                            form_type |-> c.form_type,
                                            raw_path |-> saved.raw_path,
                                            url |-> url])])
    /\ UNCHANGED single_call
    /\ UNCHANGED <<bucketVars, globalVars, fetchVars, sinkVars, xmlVars,
                   headerVars, tableVars, keyVars, factoryVars, idxVars,
                   workerVars>>

\* ----------------------------------------------------------- _parse_form_idx

\* the offsets at which a line of form.idx is sliced
FormTypeEnd == 12
NameEnd == 74
CikEnd == 86
DateEnd == 98

\* text.ljust(width): text followed by blanks up to the width of its column
Pad(text, width) == text \o [i \in 1..(width - Len(text)) |-> " "]

\* a data line as the archive writes it: five columns of fixed width
FormatLine(e) ==
    Pad(e.FormType, FormTypeEnd) \o Pad(e.Name, NameEnd - FormTypeEnd)
        \o Pad(e.CIK, CikEnd - NameEnd) \o Pad(e.DateFiled, DateEnd - CikEnd)
        \o e.Filename

\* the entries the lines of the model are written from; no field starts or
\* ends with a blank
IdxEntries ==
    [FormType : {<<"1", "3", "F">>, <<"K">>},
     Name : {<<"A", " ", "B">>},
     CIK : {<<"1">>, <<"2", "0">>},
     DateFiled : {<<"2", "0", "2", "4">>},
     Filename : {<<"e", "/", "1", ".", "t", "x", "t">>, <<>>}]

\* the lines a form.idx may hold: the column heading, lines of dashes (bare,
\* or with blanks around), dashes with a blank between them, data lines, an
\* empty line and a line that ends inside the first column
HeadingLine == <<"F", "o", "r", "m">>
DashLines == {<<"-", "-", "-">>, <<" ", "-", "-", " ">>}
IdxLines ==
    {HeadingLine, <<"-", " ", "-">>, <<>>, <<"1", "3">>}
        \cup DashLines \cup {FormatLine(e) : e \in IdxEntries}

IdxResponses ==
    [status : Statuses,
     lines : UNION {[1..n -> IdxLines] : n \in 0..MaxIdxLines}]

\* text.strip()
RECURSIVE Strip(_)
Strip(text) ==
    IF text = <<>> THEN <<>>
    ELSE IF Head(text) = " " THEN Strip(Tail(text))
    ELSE IF text[Len(text)] = " " THEN Strip(SubSeq(text, 1, Len(text) - 1))
    ELSE text

\* line[a:b]
Cut(line, a, b) == Slice(line, a + 1, Min(b, Len(line)))

\* set(line.strip()) == {'-'}
IsSeparator(line) ==
    {Strip(line)[i] : i \in DOMAIN Strip(line)} = {"-"}

\* the entry dictionary of lines 243-249
SliceLine(line) ==
    [FormType |-> Strip(Cut(line, 0, FormTypeEnd)),
     Name |-> Strip(Cut(line, FormTypeEnd, NameEnd)),
     CIK |-> Strip(Cut(line, NameEnd, CikEnd)),
     DateFiled |-> Strip(Cut(line, CikEnd, DateEnd)),
     Filename |-> Strip(Cut(line, DateEnd, Len(line)))]

\* lines from the separator on, the separator included
LinesFrom(lines, start_idx) == SubSeq(lines, start_idx, Len(lines))

\* lines[start_idx + 1:]
LinesAfter(lines, start_idx) == SubSeq(lines, start_idx + 1, Len(lines))

\* lines 234-254: the entries of the lines after the first separator
parse_form_idx(lines) ==
    LET separators == SelectSeq([i \in 1..Len(lines) |-> i],
                                LAMBDA i : IsSeparator(lines[i]))
    IN  IF separators = <<>> THEN <<>>
        ELSE LET rest == LinesAfter(lines, separators[1])
             IN  [i \in DOMAIN rest |-> SliceLine(rest[i])]

\* _parse_form_idx(year, quarter) with the response the GET ends with
ParseIdx ==
    /\ idx_entries = None
    /\ idx_entries' =
           Some([raised |-> SessionGetRaises(idx_response.status),
                 entries |-> IF idx_response.status # 200 THEN <<>>
                             ELSE parse_form_idx(idx_response.lines)])
    /\ UNCHANGED idx_response
    /\ UNCHANGED <<bucketVars, globalVars, fetchVars, sinkVars, xmlVars,
                   headerVars, tableVars, keyVars, factoryVars, rawVars,
                   workerVars>>

\* ------------------------------------- save_company_info by two workers

\* Two workers persist documents of two distinct entities into one data
\* directory; worker w saves the company row of entity w.
Workers == {1, 2}

\* the company tables the data directory may hold before: none, or one row
\* of either entity written by an earlier save
CompanyTables ==
    {None} \cup {Some(<<[CIK |-> StrCell(c), COMPANY_CONFORMED_NAME |-> n]>>) :
                    c \in Ciks, n \in Names}

\* line 55: self.company_info_file.exists()
WorkerExists(w) ==
    /\ worker_pc[w] = "start"
    /\ worker_pc' = [worker_pc EXCEPT ![w] =
                        IF company_info_file = None THEN "create" ELSE "read"]
    /\ UNCHANGED <<company_info_file, worker_row, worker_df>>

\* lines 56-67: pd.read_csv of the file, then the update or the concat, both
\* on the worker's own frame
WorkerRead(w) ==
    /\ worker_pc[w] = "read"
    /\ worker_df' = [worker_df EXCEPT ![w] =
                          save_company_info(company_info_file, worker_row[w])]
    /\ worker_pc' = [worker_pc EXCEPT ![w] = "write"]
    /\ UNCHANGED <<company_info_file, worker_row>>

\* line 70: existing_df.to_csv(self.company_info_file, index=False)
WorkerWrite(w) ==
    /\ worker_pc[w] = "write"
    /\ company_info_file' = worker_df[w]
    /\ worker_pc' = [worker_pc EXCEPT ![w] = "done"]
    /\ UNCHANGED <<worker_row, worker_df>>

\* line 73: company_info_df.to_csv(self.company_info_file, index=False)
WorkerCreate(w) ==
    /\ worker_pc[w] = "create"
    /\ company_info_file' = save_company_info(None, worker_row[w])
    /\ worker_pc' = [worker_pc EXCEPT ![w] = "done"]
    /\ UNCHANGED <<worker_row, worker_df>>

\* one step of save_company_info by worker w
WorkerStep(w) ==
    /\ \/ WorkerExists(w)
       \/ WorkerRead(w)
       \/ WorkerWrite(w)
       \/ WorkerCreate(w)
    /\ UNCHANGED <<accession_info_file, holdings_files, ingested, last_call>>
    /\ UNCHANGED <<bucketVars, globalVars, fetchVars, xmlVars, headerVars,
                   tableVars, keyVars, factoryVars, rawVars, idxVars>>

\* --------------------------------------------------------- specification

ThreadsInit ==
    /\ now = 0
    /\ lock = Unlocked
    /\ pc = [t \in Threads |-> "idle"]
    /\ call = [t \in Threads |-> NoCall]
    /\ start_time = [t \in Threads |-> 0]
    /\ sleep_until = [t \in Threads |-> 0]
    /\ refilled = [t \in Threads |-> 0]
    /\ slept = [t \in Threads |-> FALSE]
    /\ window_granted = 0

GlobalInitial ==
    /\ instance = NoObject
    /\ initialized = FALSE
    /\ objects = 0
    /\ returned = {}
    /\ first_args = None
    /\ gpc = [t \in Threads |-> "idle"]
    /\ gargs = [t \in Threads |-> NoArgs]
    /\ constructions = 0

FetchInitial ==
    /\ fetch_pc = "idle"
    /\ query = [cik |-> 0, form_type |-> ""]
    /\ quarter = 0
    /\ all_reports = <<>>
    /\ todo = <<>>
    /\ downloaded_filings = <<>>
    /\ http_log = <<>>
    /\ rate_steps = 0

SinkInitial ==
    /\ accession_info_file = None
    /\ company_info_file = None
    /\ holdings_files = [k \in Ciks \X AccessionNumbers |-> None]
    /\ ingested = 0
    /\ last_call = None

XmlInitial ==
    /\ content = [accession_number |-> None, conformed_date |-> None, body |-> <<>>]
    /\ xml_found = None

HeaderInitial ==
    /\ header = <<>>
    /\ company_info = None

TableInitial ==
    /\ fragment = SampleFragment
    /\ missing_as_text = TRUE
    /\ holdings_found = None

KeyInitial ==
    /\ accession_tokens = <<<< <<0>>, <<0>>, <<0>> >>, << <<0>>, <<0>>, <<0>> >>>>
    /\ stored_keys = <<None, None>>

FactoryInitial ==
    /\ declared_type = None
    /\ filing_content = None
    /\ parser_created = None
    /\ process_outcome = None

RawInitial ==
    /\ single_call = [cik |-> <<"0">>, accession_number |-> <<"0", "-", "0", "-", "0">>,
                      form_type |-> <<"K">>, save_raw |-> FALSE, user_agent |-> None]
    /\ single_result = None
    /\ directories = {}
    /\ raw_files = {}

IdxInitial ==
    /\ idx_response = [status |-> 404, lines |-> <<>>]
    /\ idx_entries = None

WorkerInitial ==
    /\ worker_pc = [w \in Workers |-> "done"]
    /\ worker_row = [w \in Workers |->
                        [CIK |-> StrCell(w), COMPANY_CONFORMED_NAME |-> "TEST COMPANY INC"]]
    /\ worker_df = [w \in Workers |-> None]

IoInitial == RawInitial /\ IdxInitial /\ WorkerInitial

ParseInitial ==
    /\ XmlInitial /\ HeaderInitial /\ TableInitial /\ KeyInitial /\ FactoryInitial
    /\ IoInitial

\* the limiter when nothing uses it
LimiterIdle ==
    /\ ThreadsInit
    /\ GlobalInitial
    /\ limiter = NoBucket
    /\ window_start = 0

\* threads sharing one directly constructed TokenBucketRateLimiter
LimiterInit ==
    /\ ThreadsInit
    /\ GlobalInitial
    /\ FetchInitial
    /\ SinkInitial
    /\ ParseInitial
    /\ limiter \in {TokenBucketInit(r, c, 0) : r \in Rates, c \in Capacities}
    /\ window_start \in Times

LimiterNext ==
    \/ \E t \in Threads, cost \in Costs, block \in BOOLEAN, timeout \in Timeouts :
           AcquireCall(t, cost, block, timeout)
    \/ \E t \in Threads : AcquireEnter(t)
    \/ \E t \in Threads : AcquireDeduct(t)
    \/ \E t \in Threads : AcquireWake(t)
    \/ Tick

LimiterSpec == LimiterInit /\ [][LimiterNext]_vars

\* threads sharing the singleton GlobalRateLimiter
GlobalSpecInit ==
    /\ ThreadsInit
    /\ GlobalInitial
    /\ FetchInitial
    /\ SinkInitial
    /\ ParseInitial
    /\ limiter = NoBucket
    /\ window_start = 0

GlobalNext ==
    \/ \E t \in Threads, rate \in NominalRates, tenths \in SafetyTenths :
           GlobalNew(t, rate, tenths)
    \/ \E t \in Threads : GlobalInitCheck(t)
    \/ \E t \in Threads : GlobalInitBuild(t)
    \/ \E t \in Threads : OrphanReturn(t)
    \/ \E t \in Threads, block \in BOOLEAN, timeout \in Timeouts :
           GlobalAcquire(t, block, timeout)
    \/ \E t \in Threads : AcquireEnter(t)
    \/ \E t \in Threads : AcquireDeduct(t)
    \/ \E t \in Threads : AcquireWake(t)
    \/ Tick

GlobalSpec == GlobalSpecInit /\ [][GlobalNext]_vars

\* one download_filings call against an archive answering anything
FetchInit == LimiterIdle /\ FetchInitial /\ SinkInitial /\ ParseInitial

FetchNext ==
    \/ \E cik \in Ciks, form_type \in FormTypes : DownloadFilings(cik, form_type)
    \/ \E status \in Statuses, page \in IndexPages : ParseFormIdx(status, page)
    \/ \E status \in Statuses : DownloadSingleFiling(status)

FetchSpec == FetchInit /\ [][FetchNext]_vars

\* documents processed one after another into one data directory
SinkInit == LimiterIdle /\ FetchInitial /\ SinkInitial /\ ParseInitial

SinkNext ==
    \/ \E doc \in Documents : ProcessFiling(doc)
    \/ \E doc \in Documents : SECProcessFiling(doc)

SinkSpec == SinkInit /\ [][SinkNext]_vars

\* extract_xml of either parser applied to any text
XmlInit ==
    /\ LimiterIdle /\ FetchInitial /\ SinkInitial
    /\ content \in Contents
    /\ xml_found = None
    /\ HeaderInitial /\ TableInitial /\ KeyInitial /\ FactoryInitial /\ IoInitial

XmlNext == \E parser \in {"SECFilingParser", "Form13FParser"} : ExtractXml(parser)

XmlSpec == XmlInit /\ [][XmlNext]_vars

\* parse_company_info of either parser applied to any header
HeaderInit ==
    /\ LimiterIdle /\ FetchInitial /\ SinkInitial /\ XmlInitial /\ TableInitial
    /\ KeyInitial /\ FactoryInitial /\ IoInitial
    /\ header \in Headers
    /\ company_info = None

HeaderNext ==
    \E parser \in {"SECFilingParser", "BaseFilingParser"} : ParseCompanyInfo(parser)

HeaderSpec == HeaderInit /\ [][HeaderNext]_vars

\* parse_holdings of either parser applied to any fragment
TableInit ==
    /\ LimiterIdle /\ FetchInitial /\ SinkInitial /\ XmlInitial /\ HeaderInitial
    /\ KeyInitial /\ FactoryInitial /\ IoInitial
    /\ fragment \in Fragments
    /\ missing_as_text \in BOOLEAN
    /\ holdings_found = None

TableNext == \E parser \in {"SECFilingParser", "Form13FParser"} : ParseHoldings(parser)

TableSpec == TableInit /\ [][TableNext]_vars

\* two documents with any accession numbers are stored
KeyInit ==
    /\ LimiterIdle /\ FetchInitial /\ SinkInitial /\ XmlInitial /\ HeaderInitial
    /\ TableInitial /\ FactoryInitial /\ IoInitial
    /\ accession_tokens \in AccessionTokens \X AccessionTokens
    /\ stored_keys = <<None, None>>

KeyNext == \E d \in {1, 2} : StoreFiling(d)

KeySpec == KeyInit /\ [][KeyNext]_vars

\* create_parser applied to any declared type and any content
FactoryInit ==
    /\ LimiterIdle /\ FetchInitial /\ SinkInitial /\ XmlInitial /\ HeaderInitial
    /\ TableInitial /\ KeyInitial /\ IoInitial
    /\ declared_type \in {None} \cup {Some(t) : t \in TypeNames}
    /\ filing_content \in {None} \cup {Some(c) : c \in FilingContents}
    /\ parser_created = None
    /\ process_outcome = None

FactoryNext ==
    \/ CreateParser
    \/ CallProcessFiling

FactorySpec == FactoryInit /\ [][FactoryNext]_vars

\* _download_single_filing applied to any arguments, on an empty disk
RawInit ==
    /\ LimiterIdle /\ FetchInitial /\ SinkInitial
    /\ XmlInitial /\ HeaderInitial /\ TableInitial /\ KeyInitial /\ FactoryInitial
    /\ IdxInitial /\ WorkerInitial
    /\ single_call \in SingleCalls
    /\ single_result = None
    /\ directories = {}
    /\ raw_files = {}

RawNext == \E status \in Statuses : DownloadSingle(status)

RawSpec == RawInit /\ [][RawNext]_vars

\* _parse_form_idx applied to any response
IdxInit ==
    /\ LimiterIdle /\ FetchInitial /\ SinkInitial
    /\ XmlInitial /\ HeaderInitial /\ TableInitial /\ KeyInitial /\ FactoryInitial
    /\ RawInitial /\ WorkerInitial
    /\ idx_response \in IdxResponses
    /\ idx_entries = None

IdxNext == ParseIdx

IdxSpec == IdxInit /\ [][IdxNext]_vars

\* two workers in save_company_info, each with the row of its own entity
WorkersInit ==
    /\ LimiterIdle /\ FetchInitial
    /\ XmlInitial /\ HeaderInitial /\ TableInitial /\ KeyInitial /\ FactoryInitial
    /\ RawInitial /\ IdxInitial
    /\ accession_info_file = None
    /\ holdings_files = [k \in Ciks \X AccessionNumbers |-> None]
    /\ ingested = 0
    /\ last_call = None
    /\ company_info_file \in CompanyTables
    /\ worker_pc = [w \in Workers |-> "start"]
    /\ worker_row \in [Workers -> {r \in [CIK : {StrCell(c) : c \in Ciks},
                                           COMPANY_CONFORMED_NAME : Names] : TRUE}]
    /\ \A w \in Workers : worker_row[w].CIK = StrCell(w)
    /\ worker_df = [w \in Workers |-> None]

WorkersNext == \E w \in Workers : WorkerStep(w)

WorkersSpec == WorkersInit /\ [][WorkersNext]_vars

\* ----------------------------------------------------------------- claims

\* the balance _refill leaves in the bucket at the current time
RefilledBalance ==
    LET grown == limiter.tokens + (now - limiter.last_refill_time) * limiter.rate
    IN  IF grown <= limiter.capacity THEN grown ELSE limiter.capacity

\* thread t leaves the step in which it entered `with self.lock`
Decides(t) == pc[t] = "wait_lock" /\ pc'[t] # "wait_lock"
\* thread t's time.sleep returns and it finishes acquire's post-wait part
Wakes(t) == pc[t] = "sleep" /\ pc'[t] # "sleep"
\* acquire returns False to thread t
ReturnsFalse(t) == pc[t] \in {"wait_lock", "sleep"} /\ pc'[t] = "idle"

\* C1: whenever the bucket's lock is not held, 0 <= tokens <= capacity: tokens
\* never go negative by an acquisition and never exceed capacity by a refill.
C1_TokensWithinCapacity ==
    (limiter # NoBucket /\ lock = Unlocked) =>
        (0 <= limiter.tokens /\ limiter.tokens <= limiter.capacity)

\* a bucket drained by successful acquisitions after a refill at a later time
C1_Witness ==
    /\ lock = Unlocked
    /\ limiter.tokens = 0
    /\ limiter.last_refill_time > 0
    /\ window_granted > limiter.capacity

\* C3: a caller suspended in time.sleep waiting for tokens does not hold the
\* bucket's lock, so that another caller can enter acquire meanwhile.
C3_SleepReleasesLock ==
    \A t \in Threads : pc[t] = "sleep" => lock # t

\* C4: refill-check-deduct is atomic: the tokens granted since the bucket was
\* built never exceed its initial tokens plus the refill over the elapsed
\* time, and tokens and last_refill_time are written only by a thread that
\* owns the lock (it holds it, or takes it free in that step).
C4_AtomicRefillCheckDeduct ==
    /\ [](window_start = 0 =>
            window_granted <= limiter.capacity + limiter.rate * now)
    /\ [][limiter' # limiter =>
            \E t \in Threads : pc'[t] # pc[t] /\ (lock = Unlocked \/ lock = t)]_vars

\* two callers inside acquire at once, one owning the lock, after a grant
C4_Witness ==
    \E t, u \in Threads :
        /\ t # u
        /\ pc[t] \in {"deduct", "sleep"}
        /\ pc[u] = "wait_lock"
        /\ lock = t
        /\ window_granted > 0

\* C6: the tokens granted between two instants t1 <= t2 are at most
\* capacity + rate * (t2 - t1), for every t1 (window_start) and t2 (now); an
\* acquisition is dated by the clock reading of its own _refill.
C6_RateNeverExceeded ==
    /\ now >= window_start =>
           window_granted <= limiter.capacity + limiter.rate * (now - window_start)
    /\ now < window_start => window_granted = 0

\* a window opened after the start in which the bound is met with equality
C6_Witness ==
    /\ window_start > 0
    /\ now > window_start
    /\ window_granted = limiter.capacity + limiter.rate * (now - window_start)

\* C7: a non-blocking acquire that finds fewer tokens than requested after
\* the refill returns False in that step: it never sleeps and deducts
\* nothing, the bucket holding exactly the refilled balance afterwards.
C7_NonBlockingFailsAtOnce ==
    [][\A t \in Threads :
          (Decides(t) /\ ~call[t].block /\ RefilledBalance < call[t].tokens) =>
              /\ ReturnsFalse(t)
              /\ limiter'.tokens = RefilledBalance
              /\ limiter'.last_refill_time = now]_vars

\* a non-blocking caller about to enter with too few tokens in the bucket
C7_Witness ==
    \E t \in Threads :
        /\ pc[t] = "wait_lock"
        /\ ~call[t].block
        /\ lock = Unlocked
        /\ RefilledBalance < call[t].tokens

\* C8: a blocking acquire with a timeout whose required wait (deficit / rate)
\* exceeds the remaining timeout budget returns False without suspending the
\* caller, and a call that returns False has deducted no tokens.
C8_TimeoutFailsWithoutSleep ==
    [][\A t \in Threads :
          /\ (/\ Decides(t)
              /\ call[t].block
              /\ call[t].timeout # None
              /\ RefilledBalance < call[t].tokens
              /\ call[t].tokens - RefilledBalance >
                     limiter.rate * (Val(call[t].timeout) - (now - start_time[t])))
             => ReturnsFalse(t)
          /\ ReturnsFalse(t) => limiter'.tokens = RefilledBalance]_vars

C5_FirstWriterWins ==
    /\ [](/\ Cardinality(returned) <= 1
          /\ initialized =>
                /\ limiter.rate * 10 = Val(first_args).rate * Val(first_args).tenths
                /\ limiter.capacity = limiter.rate)
    /\ [][(initialized /\ gpc' # gpc) => limiter' = limiter]_vars

\* C2: every GET the downloader sends (index or document) is preceded by a
\* rate-limiting step of its own: the i-th request is sent only after i
\* acquisitions / pacing waits have completed.
C2_EveryGetRateLimited ==
    \A i \in DOMAIN http_log : http_log[i].rate_steps >= i

\* C10: however often a document is processed and persisted, the accession
\* table holds one row per accession number.
C10_OneRowPerAccession ==
    accession_info_file # None =>
        \A i, j \in DOMAIN Val(accession_info_file) :
            Val(accession_info_file)[i].ACCESSION_NUMBER =
                Val(accession_info_file)[j].ACCESSION_NUMBER => i = j

\* the (cik, accession_number) under which a document's holdings are written
KeyOf(doc) == <<Val(doc.cik), Val(doc.accession_number)>>

\* the latest process_filing call reached the three saves
Saved == last_call # None /\ Val(last_call).saved

\* rows of a CSV file, none when it does not exist
Rows(file) == IF file = None THEN <<>> ELSE Val(file)

\* C11: the company table is an upsert keyed by CIK: it never holds two rows
\* for one CIK, also when the existing table was read back from its CSV file,
\* and the row of a CIK is the record saved last for it.
C11_CompanyTableIsUpsert ==
    LET rows == Rows(company_info_file)
    IN  /\ \A i, j \in DOMAIN rows : rows[i].CIK.v = rows[j].CIK.v => i = j
        /\ Saved =>
              \E i \in DOMAIN rows :
                  /\ rows[i].CIK.v = Val(Val(last_call).doc.cik)
                  /\ rows[i].COMPANY_CONFORMED_NAME = Val(last_call).doc.name

\* C12: holdings are an overwrite keyed by (cik, accession_number): the table
\* of the key written last holds exactly the holdings written last, and a
\* write changes the table of no other key.
C12_HoldingsOverwriteByKey ==
    /\ [](Saved => holdings_files[KeyOf(Val(last_call).doc)]
                      = Some(Val(last_call).doc.holdings))
    /\ [][\A k \in DOMAIN holdings_files :
            holdings_files'[k] # holdings_files[k] =>
                (Saved' /\ k = KeyOf(Val(last_call').doc))]_vars

\* a key written twice, last with an empty table, beside another key's table
C12_Witness ==
    /\ Saved
    /\ LET k == KeyOf(Val(last_call).doc)
           rows == Rows(accession_info_file)
       IN  /\ Cardinality({i \in DOMAIN rows :
                              <<rows[i].CIK, rows[i].ACCESSION_NUMBER>> = k}) = 2
           /\ holdings_files[k] = Some(<<>>)
           /\ \E o \in DOMAIN holdings_files :
                 o # k /\ holdings_files[o] = Some(<<"APPLE INC">>)

\* C13: a document with its ids in place but without a holdings region (or
\* with a fragment that is not XML) makes process_filing raise nothing, write
\* an empty holdings table and still persist the company row and the
\* accession row.
C13_MissKeepsDocumentRecords ==
    last_call # None =>
        LET c == Val(last_call)
        IN  (~IdsMissing(parse_accession_info(c.doc)) /\ c.doc.holdings = <<>>) =>
                /\ ~c.raised
                /\ c.saved
                /\ holdings_files[KeyOf(c.doc)] = Some(<<>>)
                /\ \E i \in DOMAIN Rows(accession_info_file) :
                      Rows(accession_info_file)[i].ACCESSION_NUMBER
                          = Val(c.doc.accession_number)
                /\ \E i \in DOMAIN Rows(company_info_file) :
                      Rows(company_info_file)[i].CIK.v = Val(c.doc.cik)

\* the <XML> ... </XML> regions of a text whose delimiters pair up
WellFormed(body) ==
    LET delimiters == SelectSeq(body, LAMBDA t : t \in {"<XML>", "</XML>"})
    IN  \A i \in DOMAIN delimiters :
            /\ delimiters[i] = (IF i % 2 = 1 THEN "<XML>" ELSE "</XML>")
            /\ (i = Len(delimiters) => i % 2 = 0)

Regions(body) ==
    [i \in DOMAIN xml_indices(body) |->
        Slice(body, xml_indices(body)[i][1], xml_indices(body)[i][2])]

\* C14: extract_xml returns the second <XML> region of a text with two or
\* more regions, the only region of a text with one, and no fragment for a
\* text with none; accession number and period come back as found.
C14_SecondRegionElseFirstElseNone ==
    (xml_found # None /\ WellFormed(content.body)) =>
        LET r == Val(xml_found)
            regions == Regions(content.body)
        IN  /\ Len(regions) >= 2 => r.xml_data = Some(StripProlog(regions[2]))
            /\ Len(regions) = 1 => r.xml_data = Some(StripProlog(regions[1]))
            /\ Len(regions) = 0 => r.xml_data = None
            /\ r.accession_number = content.accession_number
            /\ r.conformed_date = content.conformed_date

\* the header without the lines of one label
Without(lines, label) == SelectSeq(lines, LAMBDA l : l.label # label)

\* C15: header fields are extracted independently: without the label of a
\* field F, F is absent from the result and every other field G has the
\* value it has with F's label present.
C15_FieldsIndependent ==
    company_info # None =>
        \A F \in Fields :
            LET without == CompanyInfo(Without(header, Label(F)))
            IN  /\ without[F] = None
                /\ \A G \in Fields \ {F} : without[G] = Val(company_info).info[G]

\* a fragment in which findall finds every entry of the table
Tabular(f) == f.well_formed /\ f.namespace /\ f.layout = "infoTable"

\* C16: a numeric field of a table entry that is present but empty or
\* unparsable comes out of parse_holdings as the integer 0.
C16_UnparsableNumericIsZero ==
    (holdings_found # None /\ Tabular(fragment)) =>
        \A i \in DOMAIN fragment.entries :
            fragment.entries[i].value \in {Empty, Text(" "), Text("abc")} =>
                /\ Len(Val(holdings_found).rows) = Len(fragment.entries)
                /\ Val(holdings_found).rows[i].SHARE_VALUE = Some(0)

\* every numeric sub-element that is present holds a numeral
NumeralsOnly(f) ==
    \A i \in DOMAIN f.entries :
        /\ f.entries[i].value \in {Absent, Text("1000000")}
        /\ f.entries[i].sshPrnamt \in {Absent, Text("10000")}

\* C17: the sub-fields of an entry are extracted independently: an entry
\* that lacks a sub-element, a numeric one included, still yields a record,
\* with that field absent, and the other entries are as they would be.
C17_MissingSubElementKeepsRecord ==
    (holdings_found # None /\ Tabular(fragment) /\ NumeralsOnly(fragment)) =>
        LET rows == Val(holdings_found).rows
        IN  /\ Len(rows) = Len(fragment.entries)
            /\ \A i \in DOMAIN fragment.entries :
                   LET e == fragment.entries[i]
                   IN  /\ rows[i].NAME_OF_ISSUER = FindText(e.nameOfIssuer)
                       /\ rows[i].CUSIP = FindText(e.cusip)
                       /\ rows[i].SHARE_VALUE =
                              (IF e.value = Absent THEN None ELSE Some(1000000))
                       /\ rows[i].SHARE_AMOUNT =
                              (IF e.sshPrnamt = Absent THEN None ELSE Some(10000))

\* every entry carries issuer, CUSIP, value and quantity
Complete(f) ==
    \A i \in DOMAIN f.entries :
        /\ f.entries[i].nameOfIssuer = Text("APPLE INC")
        /\ f.entries[i].value = Text("1000000")
        /\ f.entries[i].sshPrnamt = Text("10000")

\* C18: parse_holdings on the fragment extract_xml returns yields one record
\* per table entry, with accession number, period, issuer, CUSIP, value and
\* quantity; for the sample document the result is not empty.
C18_OneRecordPerEntry ==
    (holdings_found # None /\ fragment.well_formed /\ Complete(fragment)) =>
        LET rows == Val(holdings_found).rows
        IN  /\ Len(rows) = Len(fragment.entries)
            /\ \A i \in DOMAIN rows :
                   rows[i] = [ACCESSION_NUMBER |-> fragment.accession_number,
                              CONFORMED_DATE |-> fragment.conformed_date,
                              NAME_OF_ISSUER |-> Str("APPLE INC"),
                              CUSIP |-> Str("037833100"),
                              SHARE_VALUE |-> Some(1000000),
                              SHARE_AMOUNT |-> Some(10000)]
            /\ (fragment = SampleFragment => rows # <<>>)

\* C19: the key a filing's holdings are stored under is the hyphen-stripped
\* accession number token, and two documents with different tokens never
\* share a key.
C19_KeyIsStrippedTokenInjective ==
    (stored_keys[1] # None /\ stored_keys[2] # None) =>
        /\ \A d \in {1, 2} : Val(stored_keys[d]) = StripHyphens(accession_tokens[d])
        /\ accession_tokens[1] # accession_tokens[2] =>
               stored_keys[1] # stored_keys[2]

\* the declared type when one is given, else the type sniffed from the content
EffectiveType ==
    IF declared_type # None THEN declared_type
    ELSE IF filing_content = None THEN None
    ELSE extract_form_type(Val(filing_content))

\* the three characters 13F occur somewhere in a type
HasMarker(t) ==
    \E i \in DOMAIN t :
        i + 2 <= Len(t) /\ t[i] = "1" /\ t[i + 1] = "3" /\ t[i + 2] = "F"

\* C20: create_parser returns Form13FParser exactly when the effective form
\* type (the declared one if given, else the sniffed one) contains 13F, and
\* BaseFilingParser in every other case, also when there is no type at all.
C20_DispatchOnEffectiveType ==
    parser_created # None =>
        /\ Val(parser_created) \in {"Form13FParser", "BaseFilingParser"}
        /\ Val(parser_created) = "Form13FParser" <=>
               (EffectiveType # None /\ HasMarker(Val(EffectiveType)))

\* no type was declared, the type was sniffed from the content, the marker
\* is not at its start, and the holdings parser was returned
C20_Witness ==
    /\ parser_created = Some("Form13FParser")
    /\ declared_type = None
    /\ filing_content = Some(Some(<<"3", "1", "3", "F">>))

\* the number a digit string denotes
RECURSIVE Denotes(_)
Denotes(text) ==
    IF text = <<>> THEN 0
    ELSE 10 * Denotes(SubSeq(text, 1, Len(text) - 1))
           + (IF text[Len(text)] = "1" THEN 1 ELSE 0)

C26_RawFileWritten ==
    (single_result # None /\ Val(single_result).status = 200 /\ single_call.save_raw) =>
        LET r == Val(single_result)
        IN  /\ ~r.raised
            /\ r.filing_info # None
            /\ Val(r.filing_info).raw_path # None
            /\ LET path == Val(Val(r.filing_info).raw_path)
               IN  /\ [path |-> path, content |-> r.body] \in raw_files
                   /\ SubSeq(path, 1, Len(path) - 1) \in directories
                   /\ SubSeq(path, 1, Len(path) - 1) =
                          output_dir(single_call.cik, single_call.form_type)

\* the document GETs sent so far
DocumentGets == SelectSeq(http_log, LAMBDA g : g.kind = "document")

\* C22: a document fetch that ends with a status other than success, the
\* retries on 429/500/502/503/504 being exhausted, yields None and raises
\* nothing; download_filings skips it, goes on with the remaining filings
\* and returns exactly the filings whose fetch succeeded.
C22_FailedFetchIsSkipped ==
    /\ (DocumentGets # <<>> /\ DocumentGets[Len(DocumentGets)].status # 200) =>
           fetch_pc # "raised"
    /\ fetch_pc = "done" =>
           /\ Len(DocumentGets) = Len(company_filings(all_reports, query))
           /\ Len(downloaded_filings) =
                  Len(SelectSeq(DocumentGets, LAMBDA g : g.status = 200))

\* the index of the first line of dashes, or 0
FirstDashLine(lines) ==
    IF \E i \in DOMAIN lines : IsSeparator(lines[i])
    THEN CHOOSE i \in DOMAIN lines :
             /\ IsSeparator(lines[i])
             /\ \A j \in 1..(i - 1) : ~IsSeparator(lines[j])
    ELSE 0

\* C23: _parse_form_idx takes the first line made of dashes only as the
\* separator and every line after it as one record in fixed columns: a
\* separator followed by n lines yields n records, a line written from the
\* fields of an entry yields that entry, and without a separator there is
\* no record.
C23_OneRecordPerLineAfterSeparator ==
    (idx_entries # None /\ idx_response.status = 200) =>
        LET lines == idx_response.lines
            first == FirstDashLine(lines)
            entries == Val(idx_entries).entries
        IN  /\ ~Val(idx_entries).raised
            /\ first = 0 => entries = <<>>
            /\ first # 0 =>
                   /\ Len(entries) = Len(lines) - first
                   /\ \A i \in DOMAIN entries :
                          \A e \in IdxEntries :
                              lines[first + i] = FormatLine(e) => entries[i] = e

\* an index with a heading, a separator and two data lines was parsed
C23_Witness ==
    /\ idx_entries # None
    /\ idx_response.status = 200
    /\ Len(idx_response.lines) = 3
    /\ IsSeparator(idx_response.lines[1])
    /\ Len(Val(idx_entries).entries) = 2
    /\ Val(idx_entries).entries[1].FormType = <<"1", "3", "F">>
    /\ Val(idx_entries).entries[2].CIK = <<"2", "0">>

\* the index GETs sent so far
IndexGets == SelectSeq(http_log, LAMBDA g : g.kind = "index")

\* the rows of the combined index whose filename matches the pattern
Matching(index_data) == SelectSeq(index_data, LAMBDA r : r.cik # 0)

\* C24: index rows are rejected one by one: a row whose filename does not
\* match the pattern never produces a locator or a document fetch and does
\* not change what the other rows produce; and a quarter whose index is
\* unavailable contributes no rows and does not stop the quarters after it
\* from being read.
C24_RowsAndQuartersRejectedOneByOne ==
    /\ \A i \in DOMAIN http_log :
           http_log[i].kind = "document" => http_log[i].url # 0
    /\ fetch_pc \in {"docs", "done"} =>
           todo = SubSeq(company_filings(Matching(all_reports), query),
                                 Len(DocumentGets) + 1,
                                 Len(company_filings(Matching(all_reports), query)))
    /\ (IndexGets # <<>> /\ DocumentGets = <<>>
            /\ IndexGets[Len(IndexGets)].status # 200 /\ Len(IndexGets) < 4) =>
           /\ fetch_pc = "index"
           /\ quarter = Len(IndexGets) + 1

\* C25: a filing is fetched exactly when its row's entity id equals the
\* queried id and its form type contains the queried form type; when no row
\* matches, or no quarter's index is available, the result is empty, nothing
\* is raised and no document is fetched.
C25_FetchedIffMatching ==
    /\ fetch_pc = "done" =>
           [i \in DOMAIN DocumentGets |-> DocumentGets[i].url] =
               [i \in DOMAIN company_filings(all_reports, query) |->
                    company_filings(all_reports, query)[i].accession_number]
    /\ (Len(IndexGets) = 4 /\ \A i \in 1..4 : IndexGets[i].status # 200) =>
           /\ fetch_pc = "done"
           /\ DocumentGets = <<>>
           /\ downloaded_filings = <<>>

\* thread t runs line 135: self.limiter = TokenBucketRateLimiter(...)
Builds(t) == gpc[t] = "build" /\ gpc'[t] = "idle"

\* C27: under concurrent first construction of GlobalRateLimiter the bucket
\* is created exactly once: no thread runs the assignment of self.limiter
\* once a bucket has been assigned, and in particular none replaces a bucket
\* from which another thread has already taken tokens.
C27_BucketCreatedOnce ==
    /\ [][\A t \in Threads : Builds(t) => ~initialized]_vars
    /\ [][\A t \in Threads :
              Builds(t) => ~(initialized /\ limiter.tokens < limiter.capacity)]_vars

\* the document has the key fields of a filing record: an accession number
\* and a CIK of ten digits
HasKeyFields(doc) ==
    doc.accession_number # None /\ doc.cik # None /\ doc.ten_digits

\* C28: Form13FParser.process_filing is all-or-nothing in the key fields of
\* the filing record: for a document without an accession number or without
\* a CIK of ten digits it writes nothing to the accession table, the company
\* table or the holdings directory and raises nothing; for any other document
\* it writes the accession row, the company row and the holdings table.
C28_AllOrNothing ==
    [][(last_call' # None /\ ingested' # ingested
            /\ Val(last_call').parser = "Form13FParser") =>
        LET doc == Val(last_call').doc
        IN  /\ ~Val(last_call').raised
            /\ ~HasKeyFields(doc) =>
                   /\ accession_info_file' = accession_info_file
                   /\ company_info_file' = company_info_file
                   /\ holdings_files' = holdings_files
            /\ HasKeyFields(doc) =>
                   /\ Rows(accession_info_file') =
                          Append(Rows(accession_info_file),
                                 [CIK |-> Val(doc.cik),
                                  ACCESSION_NUMBER |-> Val(doc.accession_number)])
                   /\ \E i \in DOMAIN Rows(company_info_file') :
                          /\ Rows(company_info_file')[i].CIK.v = Val(doc.cik)
                          /\ Rows(company_info_file')[i].COMPANY_CONFORMED_NAME
                                 = doc.name
                   /\ holdings_files'[<<Val(doc.cik), Val(doc.accession_number)>>]
                          = Some(doc.holdings)]_vars

\* after a complete filing was persisted, a document whose CIK has fewer than
\* ten digits went through Form13FParser.process_filing and left the three
\* stores as they were
C28_Witness ==
    /\ last_call # None
    /\ Val(last_call).parser = "Form13FParser"
    /\ Val(last_call).doc.cik # None
    /\ Val(last_call).doc.accession_number # None
    /\ ~Val(last_call).doc.ten_digits
    /\ ~Val(last_call).saved
    /\ Len(Rows(accession_info_file)) = 1
    /\ Len(Rows(company_info_file)) = 1
    /\ \E k \in DOMAIN holdings_files : holdings_files[k] = Some(<<"APPLE INC">>)

\* C29: every parser create_parser can return supports the per-document
\* pipeline: process_filing on it completes without raising for any
\* document, for Form13FParser and for the BaseFilingParser selected for
\* form types without 13F or unknown ones.
C29_ProcessFilingNeverRaises ==
    process_outcome # None => ~Val(process_outcome).raised

\* C30: when two workers persist documents of two distinct entities
\* concurrently, no company row is lost: however the two read-modify-write
\* sequences of save_company_info interleave, the final company table holds
\* a row for both entities.
C30_NoCompanyRowLost ==
    (\A w \in Workers : worker_pc[w] = "done") =>
        \A w \in Workers :
            \E i \in DOMAIN Rows(company_info_file) :
                Rows(company_info_file)[i].CIK.v = worker_row[w].CIK.v

====
